---- MODULE Spec2Model ----
(***************************************************************************)
(* KoryFi Chart Cache API (services/chart-cache-api/main.py).              *)
(*                                                                         *)
(* A FastAPI service over one SQLite table chart_cache, keyed by           *)
(* (basket_id, year).  The model has the process start-up (init_db), two   *)
(* request workers that serve GET /charts/{basket_id} and                  *)
(* PUT /charts/{basket_id} concurrently, the per-request connection        *)
(* (get_conn) and SQLite's single-writer lock.                             *)
(*                                                                         *)
(* Optional values (Python None / a missing row) are sequences of length   *)
(* 0 or 1.  Floats are written as their literals; "inf" is the non-finite  *)
(* float that Python's json.loads produces for a literal such as 1e999.    *)
(***************************************************************************)
EXTENDS Integers, Sequences, FiniteSets, TLC

VARIABLES
    API_KEY,      \* os.getenv("CHART_CACHE_API_KEY"), read once at import
    app,          \* position of the process: start-up (init_db), serving, crashed
    tableExists,  \* the chart_cache table has been created in the database file
    store,        \* the rows of chart_cache
    lock,         \* the connection that holds SQLite's write lock, if any
    conns,        \* the owners of the open connections
    req,          \* per worker: the request being handled, or its response
    lastCommit,   \* history: per key, what the last committed PUT supplied
                  \* and whether that PUT has been answered 200
    served        \* history: number of requests received

vars == <<API_KEY, app, tableExists, store, lock, conns, req, lastCommit, served>>

(* ------------------------------ bounds -------------------------------- *)

\* requests received by the server during a run
MaxRequests == 2

(* ------------------------------ domains ------------------------------- *)

Procs == {"w1", "w2"}

InitOwner == "init_db"

\* Python None for a header or an environment variable that is absent
NoKey == "<None>"

Secrets == {NoKey, "", "s3cret"}

Credentials == {NoKey, "s3cret", "wrong"}

Baskets == {"tech-5", "defi-3"}

Years == {2024, 2025}

Keys == Baskets \X Years

\* values int(time.time() * 1000) may take; the wall clock is not monotonic
Times == {1000, 1001}

Point(t, price) == [timestamp |-> t, prices |-> [AAPL |-> price]]

DataSamples ==
    { <<Point(1, "190.5"), Point(2, "410.25")>>,
      <<Point(1, "inf")>> }

\* class ChartPayload(BaseModel): basketId: str, data: List[ChartPoint]
ChartPayloads == [basketId : Baskets, data : DataSamples]

\* a request body after FastAPI's validation against ChartPayload:
\* << >> when the body is not of the ChartPayload shape, <<P>> otherwise
Bodies == {<< >>} \cup { <<P>> : P \in ChartPayloads }

(* --------------------------- serialization ---------------------------- *)

IsFinite(f) == f # "inf"

\* pydantic's JSON serializer writes a non-finite float as null
FloatToJson(f) == IF IsFinite(f) THEN f ELSE "null"

\* json.loads: null becomes None, a number literal the float it denotes
JsonToFloat(tok) == IF tok = "null" THEN "None" ELSE tok

PointToJson(pt) ==
    [timestamp |-> pt.timestamp,
     prices |-> [s \in DOMAIN pt.prices |-> FloatToJson(pt.prices[s])]]

\* payload.model_dump_json()
model_dump_json(P) ==
    [basketId |-> P.basketId,
     data |-> [i \in 1..Len(P.data) |-> PointToJson(P.data[i])]]

JsonToPoint(jp) ==
    [timestamp |-> jp.timestamp,
     prices |-> [s \in DOMAIN jp.prices |-> JsonToFloat(jp.prices[s])]]

\* json.loads(row["payload"])
json_loads(text) ==
    [basketId |-> text.basketId,
     data |-> [i \in 1..Len(text.data) |-> JsonToPoint(text.data[i])]]

\* response_model=ChartPayload: prices must be Dict[str, float]
ResponseValid(obj) ==
    \A i \in 1..Len(obj.data) :
        \A s \in DOMAIN obj.data[i].prices : obj.data[i].prices[s] # "None"

(* ------------------------------- store -------------------------------- *)

KeyOf(r) == <<r.basket_id, r.year>>

Row(b, y, text, ms) ==
    [basket_id |-> b, year |-> y, payload |-> text, updated_at_ms |-> ms]

\* mutant: the WHERE clause forgets the year
SelectByBasket(rows, b, y) ==
    LET hit == { r \in rows : r.basket_id = b }
    IN  IF hit = {} THEN << >> ELSE <<(CHOOSE r \in hit : TRUE).payload>>

\* SELECT payload FROM chart_cache WHERE basket_id = ? AND year = ? ; fetchone()
Select(rows, b, y) ==
    LET hit == { r \in rows : r.basket_id = b /\ r.year = y }
    IN  IF hit = {} THEN << >> ELSE <<(CHOOSE r \in hit : TRUE).payload>>

\* mutant: a plain INSERT into a table without the primary key
UpsertNoConflict(rows, new) == rows \cup {new}

\* mutant: DO UPDATE SET payload only, updated_at_ms keeps the old writer's value
UpsertPayloadOnly(rows, new) ==
    LET old == { r \in rows : KeyOf(r) = KeyOf(new) }
    IN  IF old = {} THEN rows \cup {new}
        ELSE (rows \ old) \cup { [r EXCEPT !.payload = new.payload] : r \in old }

\* mutant: the conflict target is basket_id alone
UpsertByBasket(rows, new) ==
    { r \in rows : r.basket_id # new.basket_id } \cup {new}

\* INSERT ... ON CONFLICT(basket_id, year) DO UPDATE SET payload, updated_at_ms
Upsert(rows, new) ==
    { r \in rows : KeyOf(r) # KeyOf(new) } \cup {new}

(* ------------------------------ get_conn ------------------------------ *)

\* mutant: conn.close() after the yield, without try/finally
ConnCloseOnSuccess(open, who, raised) == IF raised THEN open ELSE open \ {who}

\* the finally: conn.close() of get_conn, whether or not the block raised
ConnClose(open, who, raised) == open \ {who}

(* --------------------------- require_api_key -------------------------- *)

\* TRUE when require_api_key raises HTTPException(401)
require_api_key(x_api_key) ==
    IF API_KEY = NoKey \/ API_KEY = "" THEN FALSE
    ELSE x_api_key # API_KEY

\* mutant: the basketId check is left out
basketIdNeverMismatch(payload, basket_id) == FALSE

\* if payload.basketId != basket_id: raise HTTPException(400)
basketIdMismatch(payload, basket_id) == payload.basketId # basket_id

(* ------------------------------- state -------------------------------- *)

\* a worker with no request; the fields are the handler's parameters and
\* locals (method .. raised), the response (status, resp, updatedAtMs) and
\* history (prior: the last committed PUT of the key when the request arrived;
\* seen: the same when SELECT ran; touched: the request opened a connection)
Idle ==
    [pc |-> "idle", method |-> "GET", basket_id |-> "tech-5", year |-> 2024,
     x_api_key |-> NoKey, body |-> << >>, now_ms |-> 0, stmt |-> << >>,
     row |-> << >>, prior |-> << >>, seen |-> << >>, raised |-> FALSE, touched |-> FALSE,
     status |-> 0, resp |-> << >>, updatedAtMs |-> 0]

Init ==
    /\ API_KEY \in Secrets
    /\ app = "starting"
    /\ tableExists = FALSE
    /\ store = {}
    /\ lock = << >>
    /\ conns = {}
    /\ req = [p \in Procs |-> Idle]
    /\ lastCommit = [k \in Keys |-> << >>]
    /\ served = 0

(* ------------------------------ start-up ------------------------------ *)

\* on_startup -> init_db: with get_conn() as conn
InitConnect ==
    /\ app = "starting"
    /\ \/ /\ conns' = conns \cup {InitOwner}
          /\ app' = "init_execute"
       \/ /\ app' = "crashed"             \* sqlite3.connect raised
          /\ UNCHANGED conns
    /\ UNCHANGED <<API_KEY, tableExists, store, lock, req, lastCommit, served>>

\* conn.execute("CREATE TABLE IF NOT EXISTS chart_cache (...)")
InitExecute ==
    /\ app = "init_execute"
    /\ \/ /\ tableExists' = TRUE
          /\ app' = "init_commit"
       \/ /\ app' = "init_raised"
          /\ UNCHANGED tableExists
    /\ UNCHANGED <<API_KEY, store, lock, conns, req, lastCommit, served>>

\* conn.commit()
InitCommit ==
    /\ app = "init_commit"
    /\ app' \in {"init_exit", "init_raised"}
    /\ UNCHANGED <<API_KEY, tableExists, store, lock, conns, req, lastCommit, served>>

\* leaving the with block of init_db; a raised error aborts the start-up
InitExit ==
    /\ app \in {"init_exit", "init_raised"}
    /\ conns' = ConnClose(conns, InitOwner, app = "init_raised")
    /\ app' = IF app = "init_raised" THEN "crashed" ELSE "serving"
    /\ UNCHANGED <<API_KEY, tableExists, store, lock, req, lastCommit, served>>

\* the process is stopped and started again on the same database file
Restart ==
    /\ app \in {"serving", "crashed"}
    /\ \A p \in Procs : req[p].pc = "idle"
    /\ app' = "starting"
    /\ UNCHANGED <<API_KEY, tableExists, store, lock, conns, req, lastCommit, served>>

(* ------------------------------ requests ------------------------------ *)

\* the handler returns or raises: its frame is gone, the response remains
Respond(r, code, body) ==
    [Idle EXCEPT !.pc = "done", !.method = r.method, !.touched = r.touched,
                 !.status = code, !.resp = body,
                 !.updatedAtMs = IF r.method = "PUT" /\ code = 200 THEN r.now_ms ELSE 0]

\* GET /charts/{basket_id}?year= reaches the server
GetArrive(p) ==
    /\ app = "serving"
    /\ req[p].pc = "idle"
    /\ served < MaxRequests
    /\ \E b \in Baskets, y \in Years, k \in Credentials :
         req' = [req EXCEPT ![p] =
                    [Idle EXCEPT !.pc = "received", !.method = "GET", !.basket_id = b,
                                 !.year = y, !.x_api_key = k,
                                 !.prior = lastCommit[<<b, y>>]]]
    /\ served' = served + 1
    /\ UNCHANGED <<API_KEY, app, tableExists, store, lock, conns, lastCommit>>

\* PUT /charts/{basket_id}?year= reaches the server
PutArrive(p) ==
    /\ app = "serving"
    /\ req[p].pc = "idle"
    /\ served < MaxRequests
    /\ \E b \in Baskets, y \in Years, k \in Credentials, body \in Bodies :
         req' = [req EXCEPT ![p] =
                    [Idle EXCEPT !.pc = "received", !.method = "PUT", !.basket_id = b,
                                 !.year = y, !.x_api_key = k, !.body = body]]
    /\ served' = served + 1
    /\ UNCHANGED <<API_KEY, app, tableExists, store, lock, conns, lastCommit>>

\* get_chart up to the with block: require_api_key(x_api_key).
\* x_api_key is not read again and is dropped from the frame.
get_chart_enter(r) ==
    IF require_api_key(r.x_api_key) THEN Respond(r, 401, << >>)
    ELSE [r EXCEPT !.pc = "connect", !.x_api_key = NoKey]

GetEnter(p) ==
    /\ req[p].pc = "received"
    /\ req[p].method = "GET"
    /\ req' = [req EXCEPT ![p] = get_chart_enter(@)]
    /\ UNCHANGED <<API_KEY, app, tableExists, store, lock, conns, lastCommit, served>>

\* mutant: a mismatching body is answered 422 like a malformed one
upsert_chart_enter_422(r, t) ==
    IF r.body = << >> THEN Respond(r, 422, << >>)
    ELSE IF require_api_key(r.x_api_key) THEN Respond(r, 401, << >>)
    ELSE IF basketIdMismatch(r.body[1], r.basket_id) THEN Respond(r, 422, << >>)
    ELSE [r EXCEPT !.pc = "connect", !.x_api_key = NoKey, !.now_ms = t]

\* upsert_chart up to the with block.  FastAPI validates the body parameter
\* (payload: ChartPayload) before it calls the function and answers 422 itself;
\* the function then runs require_api_key, the basketId check and reads the clock.
upsert_chart_enter(r, t) ==
    IF r.body = << >> THEN Respond(r, 422, << >>)
    ELSE IF require_api_key(r.x_api_key) THEN Respond(r, 401, << >>)
    ELSE IF basketIdMismatch(r.body[1], r.basket_id) THEN Respond(r, 400, << >>)
    ELSE [r EXCEPT !.pc = "connect", !.x_api_key = NoKey, !.now_ms = t]

PutEnter(p) ==
    /\ req[p].pc = "received"
    /\ req[p].method = "PUT"
    /\ \E t \in Times : req' = [req EXCEPT ![p] = upsert_chart_enter(@, t)]
    /\ UNCHANGED <<API_KEY, app, tableExists, store, lock, conns, lastCommit, served>>

\* get_conn: conn = sqlite3.connect(DB_PATH)
Connect(p) ==
    /\ req[p].pc = "connect"
    /\ \/ /\ conns' = conns \cup {p}
          /\ req' = [req EXCEPT ![p].pc = "execute", ![p].touched = TRUE]
       \/ /\ req' = [req EXCEPT ![p] = Respond(@, 500, << >>)]
          /\ UNCHANGED conns
    /\ UNCHANGED <<API_KEY, app, tableExists, store, lock, lastCommit, served>>

\* get_chart: row = conn.execute("SELECT ...").fetchone()
GetExecute(p) ==
    /\ req[p].pc = "execute"
    /\ req[p].method = "GET"
    /\ \/ req' = [req EXCEPT ![p].pc = "exit",
                              ![p].row = Select(store, req[p].basket_id, req[p].year),
                              ![p].seen = lastCommit[<<req[p].basket_id, req[p].year>>]]
       \/ req' = [req EXCEPT ![p].pc = "exit", ![p].raised = TRUE]
    /\ UNCHANGED <<API_KEY, app, tableExists, store, lock, conns, lastCommit, served>>

\* upsert_chart: conn.execute("INSERT ... ON CONFLICT ... DO UPDATE ...");
\* the statement opens the connection's write transaction
PutExecute(p) ==
    /\ req[p].pc = "execute"
    /\ req[p].method = "PUT"
    /\ \/ /\ lock = << >>
          /\ lock' = <<p>>
          /\ req' = [req EXCEPT ![p].pc = "commit",
                                ![p].stmt = <<Row(req[p].basket_id, req[p].year,
                                                  model_dump_json(req[p].body[1]),
                                                  req[p].now_ms)>>]
       \/ /\ req' = [req EXCEPT ![p].pc = "exit", ![p].raised = TRUE]
          /\ UNCHANGED lock
    /\ UNCHANGED <<API_KEY, app, tableExists, store, conns, lastCommit, served>>

\* upsert_chart: conn.commit()
PutCommit(p) ==
    /\ req[p].pc = "commit"
    /\ \/ /\ store' = Upsert(store, req[p].stmt[1])
          /\ lock' = << >>
          /\ lastCommit' = [lastCommit EXCEPT ![<<req[p].basket_id, req[p].year>>] =
                                <<[payload |-> req[p].body[1], now_ms |-> req[p].now_ms,
                                   answered |-> FALSE]>>]
          /\ req' = [req EXCEPT ![p].pc = "exit"]
       \/ /\ req' = [req EXCEPT ![p].pc = "exit", ![p].raised = TRUE]
          /\ UNCHANGED <<store, lock, lastCommit>>
    /\ UNCHANGED <<API_KEY, app, tableExists, conns, served>>

\* get_chart after the with block: 404, json.loads, the response model
get_chart_result(r) ==
    IF r.raised THEN Respond(r, 500, << >>)
    ELSE IF r.row = << >> THEN Respond(r, 404, << >>)
    ELSE LET payload == json_loads(r.row[1])
         IN  IF ResponseValid(payload) THEN Respond(r, 200, <<payload>>)
             ELSE Respond(r, 500, << >>)

\* upsert_chart after the with block: {"ok": True, "updatedAtMs": now_ms}
upsert_chart_result(r) ==
    IF r.raised THEN Respond(r, 500, << >>) ELSE Respond(r, 200, << >>)

\* leaving the with block of get_chart and the rest of the handler
GetExit(p) ==
    /\ req[p].pc = "exit"
    /\ req[p].method = "GET"
    /\ conns' = ConnClose(conns, p, req[p].raised)
    /\ req' = [req EXCEPT ![p] = get_chart_result(@)]
    /\ UNCHANGED <<API_KEY, app, tableExists, store, lock, lastCommit, served>>

\* leaving the with block of upsert_chart (closing the connection rolls back
\* a transaction that was not committed) and the rest of the handler
PutExit(p) ==
    /\ req[p].pc = "exit"
    /\ req[p].method = "PUT"
    /\ conns' = ConnClose(conns, p, req[p].raised)
    /\ lock' = IF lock = <<p>> THEN << >> ELSE lock
    /\ req' = [req EXCEPT ![p] = upsert_chart_result(@)]
    /\ lastCommit' =
          LET k == <<req[p].basket_id, req[p].year>>
          IN  IF /\ ~req[p].raised
                 /\ lastCommit[k] # << >>
                 /\ lastCommit[k][1].payload = req[p].body[1]
                 /\ lastCommit[k][1].now_ms = req[p].now_ms
              THEN [lastCommit EXCEPT ![k][1].answered = TRUE]
              ELSE lastCommit
    /\ UNCHANGED <<API_KEY, app, tableExists, store, served>>

\* the response is sent; the worker takes the next request
Deliver(p) ==
    /\ req[p].pc = "done"
    /\ req' = [req EXCEPT ![p] = Idle]
    /\ UNCHANGED <<API_KEY, app, tableExists, store, lock, conns, lastCommit, served>>

Next ==
    \/ InitConnect
    \/ InitExecute
    \/ InitCommit
    \/ InitExit
    \/ Restart
    \/ \E p \in Procs : GetArrive(p)
    \/ \E p \in Procs : PutArrive(p)
    \/ \E p \in Procs : GetEnter(p)
    \/ \E p \in Procs : PutEnter(p)
    \/ \E p \in Procs : Connect(p)
    \/ \E p \in Procs : GetExecute(p)
    \/ \E p \in Procs : PutExecute(p)
    \/ \E p \in Procs : PutCommit(p)
    \/ \E p \in Procs : GetExit(p)
    \/ \E p \in Procs : PutExit(p)
    \/ \E p \in Procs : Deliver(p)

Spec == Init /\ [][Next]_vars

(* ------------------------------ properties ----------------------------- *)

KeyOfReq(p) == <<req[p].basket_id, req[p].year>>

RowsAt(rows, k) == { r \in rows : KeyOf(r) = k }

\* the gate lets credential k through
GatePasses(k) == ~require_api_key(k)

SecretConfigured == API_KEY # NoKey /\ API_KEY # ""

\* worker p runs the part of its handler that precedes the with block
EnterStep(p) == req[p].pc = "received" /\ req'[p].pc # "received"

\* worker p's conn.commit() succeeds
CommitStep(p) == req[p].pc = "commit" /\ req'[p].pc = "exit" /\ ~req'[p].raised

\* worker p's PUT has committed
Committed(p) ==
    /\ req[p].method = "PUT"
    /\ \/ req[p].pc = "exit" /\ ~req[p].raised /\ req[p].stmt # << >>
       \/ req[p].pc = "done" /\ req[p].status = 200

\* worker p's GET leaves the handler after a SELECT that did not raise
GetAnswerStep(p) ==
    /\ req[p].pc = "exit" /\ req[p].method = "GET" /\ ~req[p].raised
    /\ req'[p].pc = "done"

\* C1: round trip.  A GET of (B,Y) that arrives after a PUT of payload P to
\* (B,Y) was answered 200, and whose SELECT runs with no other PUT committed
\* on the key since, is answered 200 with a body equal to P.
C1_RoundTrip ==
    [][\A p \in Procs :
         (/\ GetAnswerStep(p)
          /\ req[p].prior # << >>
          /\ req[p].prior[1].answered
          /\ req[p].seen = req[p].prior)
            => /\ req'[p].status = 200
               /\ req'[p].resp = <<req[p].seen[1].payload>>]_vars

\* C2: authorization gate.  With a non-empty secret configured, a GET or PUT
\* whose X-Api-Key is missing or differs from the secret is answered 401 and
\* touches no storage (no connection, store unchanged); with the secret unset
\* or empty no request is answered 401.
C2_AuthorizationGate ==
    [][\A p \in Procs :
         EnterStep(p)
            => IF SecretConfigured
               THEN req[p].x_api_key # API_KEY
                       => /\ req'[p].pc = "done"
                          /\ req'[p].status = 401
                          /\ ~req'[p].touched
                          /\ store' = store /\ conns' = conns
               ELSE req'[p].status # 401]_vars

\* C3: key uniqueness.  The store never holds two rows with the same
\* (basket_id, year); a PUT that commits on an existing key leaves the number
\* of rows unchanged and the key's row carries the PUT's payload and time.
C3_KeyUniqueness ==
    /\ [](\A r1, r2 \in store : KeyOf(r1) = KeyOf(r2) => r1 = r2)
    /\ [][\A p \in Procs :
            CommitStep(p)
               => /\ Cardinality(RowsAt(store', KeyOfReq(p))) = 1
                  /\ \A r \in RowsAt(store', KeyOfReq(p)) :
                        /\ r.payload = model_dump_json(req[p].body[1])
                        /\ r.updated_at_ms = req[p].now_ms
                  /\ RowsAt(store, KeyOfReq(p)) # {}
                        => Cardinality(store') = Cardinality(store)]_vars

\* two PUTs have committed and the store holds one row: the second replaced
\* the row of the first
C3_Witness ==
    \E p, q \in Procs :
        /\ p # q /\ Committed(p) /\ Committed(q)
        /\ Cardinality(store) = 1

\* C4: last write wins.  The row of a key holds exactly the payload and the
\* updatedAtMs supplied by the PUT whose upsert committed last on that key,
\* never the payload of one PUT with the time of another.
C4_LastWriteWins ==
    \A k \in Keys :
        lastCommit[k] # << >>
           => RowsAt(store, k) =
                 { Row(k[1], k[2], model_dump_json(lastCommit[k][1].payload),
                       lastCommit[k][1].now_ms) }

\* two PUTs to one key, with different payloads and times, are in flight
\* together and both have committed
C4_Witness ==
    \E p, q \in Procs :
        /\ p # q
        /\ req[p].pc = "exit" /\ req[q].pc = "exit"
        /\ Committed(p) /\ Committed(q)
        /\ KeyOfReq(p) = KeyOfReq(q)
        /\ req[p].stmt[1].payload # req[q].stmt[1].payload
        /\ req[p].stmt[1].updated_at_ms # req[q].stmt[1].updated_at_ms

\* C5: key isolation.  A PUT that commits on (B1,Y1) leaves the rows of every
\* other key as they were: none changed, created or removed.
C5_KeyIsolation ==
    [][\A p \in Procs :
         CommitStep(p)
            => \A k \in Keys \ {KeyOfReq(p)} : RowsAt(store', k) = RowsAt(store, k)]_vars

\* rows of one basket in two years exist, the second PUT committed after the first
C5_Witness ==
    \E r1, r2 \in store :
        /\ r1.basket_id = r2.basket_id /\ r1.year # r2.year
        /\ \E p \in Procs : Committed(p) /\ req[p].pc = "exit"

\* C6: mismatch rejection.  A PUT that passes the gate and whose body's
\* basketId differs from the path's is answered 400; it opens no connection
\* and the store is unchanged.
C6_MismatchRejection ==
    [][\A p \in Procs :
         (/\ EnterStep(p)
          /\ req[p].method = "PUT"
          /\ req[p].body # << >>
          /\ GatePasses(req[p].x_api_key)
          /\ req[p].body[1].basketId # req[p].basket_id)
            => /\ req'[p].pc = "done"
               /\ req'[p].status = 400
               /\ ~req'[p].touched
               /\ store' = store /\ conns' = conns]_vars

\* a PUT was answered 400 while the store holds a row
C6_Witness ==
    \E p \in Procs :
        /\ req[p].pc = "done" /\ req[p].method = "PUT" /\ req[p].status = 400
        /\ store # {}

\* C7: not found, no deletion.  A GET whose SELECT ran is answered 404, with no
\* payload, exactly when no PUT of its key had committed by then; and a key
\* that a PUT has committed keeps its row for ever.
C7_NotFoundNoDeletion ==
    /\ [](\A k \in Keys : lastCommit[k] # << >> => RowsAt(store, k) # {})
    /\ [][\A p \in Procs :
            GetAnswerStep(p)
               => /\ req'[p].status = 404 <=> req[p].seen = << >>
                  /\ req'[p].status = 404 => req'[p].resp = << >>]_vars

\* a GET was answered 404 although the basket has a row in the other year
C7_Witness ==
    \E p \in Procs :
        /\ req[p].pc = "done" /\ req[p].method = "GET" /\ req[p].status = 404
        /\ store # {}

\* C8: stored basketId.  The payload of every row decodes (json.loads) to a
\* value whose basketId is the row's basket_id.
C8_StoredBasketId ==
    \A r \in store : json_loads(r.payload).basketId = r.basket_id

\* rows of both baskets are stored
C8_Witness ==
    \E r1, r2 \in store : r1.basket_id # r2.basket_id

\* C9: PUT step order.  A PUT whose credential the gate rejects is answered
\* 401 even when its body is malformed; 400 and 422 go only to requests whose
\* credential the gate lets through.
C9_GateBeforeValidation ==
    [][\A p \in Procs :
         EnterStep(p) /\ req[p].method = "PUT"
            => /\ ~GatePasses(req[p].x_api_key) => req'[p].status = 401
               /\ req'[p].status \in {400, 422} => GatePasses(req[p].x_api_key)]_vars

\* the owners whose with get_conn() block is being executed
InWithBlock ==
    { p \in Procs : req[p].pc \in {"execute", "commit", "exit"} }
       \cup (IF app \in {"init_execute", "init_commit", "init_exit", "init_raised"}
             THEN {InitOwner} ELSE {})

\* C10: no handle leakage.  A connection is open only while its owner is
\* inside its with block, so no handle is open when no request is in flight
\* and init_db is not running.
C10_NoHandleLeak == conns = InWithBlock

\* a request failed inside its with block, nothing is in flight, no handle is open
C10_Witness ==
    /\ \E p \in Procs : req[p].pc = "done" /\ req[p].status = 500 /\ req[p].touched
    /\ \A p \in Procs : req[p].pc \in {"idle", "done"}
    /\ app = "serving"
    /\ conns = {}

====
